---- MODULE Spec2Model ----
(***************************************************************************)
(* Model of the refactoring katas of the repository.                       *)
(*                                                                         *)
(* Spec, SpecLive: the item quality update rule engine of                  *)
(*   samples/1-simple/refactored-predicates.ts, one call of                *)
(*   updateItemQuality(item) per step, with the single-function version    *)
(*   before the refactoring run on an equal item (legacy).                 *)
(* SpecTennis: the two canPlayerWin predicates called on one game.         *)
(* SpecOrder: one call of processUserOrderAndSendNotification, refactored  *)
(*   or original, one step per statement.                                  *)
(*                                                                         *)
(* Each specification holds the state of the other programs idle.          *)
(***************************************************************************)
EXTENDS Integers, FiniteSets, Sequences, TLC

(* ---------------------------------------------------------------------- *)
(* Bounds of the model                                                     *)
(* ---------------------------------------------------------------------- *)

\* sellIn of the item handed over ranges over -SellInBound .. SellInBound
SellInBound == 2

\* quality of the item handed over ranges over
\* -QualitySlack .. MAX_QUALITY + QualitySlack (the malformed values included)
QualitySlack == 30

\* each player's score of the game handed to the tennis predicates ranges
\* over 0 .. MaxScore
MaxScore == 5

\* the product list handed to processUserOrderAndSendNotification has at most
\* MaxProducts entries
MaxProducts == 2

(* ---------------------------------------------------------------------- *)
(* Program constants                                                       *)
(* ---------------------------------------------------------------------- *)

MIN_QUALITY == 0

MAX_QUALITY == 50

AGED_BRIE == "Aged Brie"

BACKSTAGE_PASS == "Backstage passes to a TAFKAL80ETC concert"

SULFURAS == "Sulfuras, Hand of Ragnaros"

\* names that match none of the three literals; the comparison is exact, so a
\* name that differs only in case is a generic one
GenericNames == {"Normal Item", "aged brie"}

Names == {AGED_BRIE, BACKSTAGE_PASS, SULFURAS} \cup GenericNames

SellIns == (0 - SellInBound) .. SellInBound

Qualities == (MIN_QUALITY - QualitySlack) .. (MAX_QUALITY + QualitySlack)

\* interface Item
Item == [name : Names, sellIn : SellIns, quality : Qualities]

VARIABLES item, entry, pre, fired, acted, legacy

itemVars == <<item, entry, pre, fired, acted, legacy>>

\* the game handed to the tennis predicates and, per predicate called so far,
\* the boolean it returned
VARIABLES game, verdicts

tennisVars == <<game, verdicts>>

\* one call of processUserOrderAndSendNotification: which version runs, its
\* arguments (user is mutated in place, given is the user as passed in), its
\* position, its locals, what it wrote to the console, what it threw or returned
VARIABLES version, user, given, products, pc, discountPercentage, totalAmount,
          idx, order, console, thrown, returned

orderVars == <<version, user, given, products, pc, discountPercentage,
               totalAmount, idx, order, console, thrown, returned>>

vars == <<itemVars, tennisVars, orderVars>>

(* ---------------------------------------------------------------------- *)
(* Predicate functions                                                     *)
(* ---------------------------------------------------------------------- *)

isAgedBrie(i) == i.name = "Aged Brie"

isBackstagePass(i) == i.name = "Backstage passes to a TAFKAL80ETC concert"

isSulfuras(i) == i.name = "Sulfuras, Hand of Ragnaros"

isSpecialItem_NoSulfuras(i) == isAgedBrie(i) \/ isBackstagePass(i)

isSpecialItem(i) == isAgedBrie(i) \/ isBackstagePass(i) \/ isSulfuras(i)

hasQualityToDecrease_NonZero(i) == i.quality /= 0

hasQualityToDecrease_AboveOne(i) == i.quality > 1

hasQualityToDecrease(i) == i.quality > 0

hasQualityToIncrease_Inclusive(i) == i.quality <= 50

hasQualityToIncrease(i) == i.quality < 50

hasExpired_Inclusive(i) == i.sellIn <= 0

hasExpired(i) == i.sellIn < 0

(* ---------------------------------------------------------------------- *)
(* Business rule predicates                                                *)
(* ---------------------------------------------------------------------- *)

shouldDecreaseQuality_OnlyUnexpired(i) ==
    ~isSpecialItem(i) /\ hasQualityToDecrease(i) /\ i.sellIn >= 0

shouldDecreaseQuality(i) == ~isSpecialItem(i) /\ hasQualityToDecrease(i)

shouldIncreaseQuality_SellInPositive(i) ==
    /\ isAgedBrie(i) \/ isBackstagePass(i)
    /\ hasQualityToIncrease(i)
    /\ (i.sellIn > 0 \/ isBackstagePass(i))

shouldIncreaseQuality(i) ==
    (isAgedBrie(i) \/ isBackstagePass(i)) /\ hasQualityToIncrease(i)

shouldIncreaseQualityMoreRapidly_AlsoExpired(i) ==
    isBackstagePass(i) /\ hasQualityToIncrease(i)

shouldIncreaseQualityMoreRapidly(i) ==
    isBackstagePass(i) /\ (hasExpired(i) = FALSE) /\ hasQualityToIncrease(i)

shouldLoseAllQualityAfterEvent_OnlyPositive(i) ==
    isBackstagePass(i) /\ hasExpired(i) /\ i.quality > 0

shouldLoseAllQualityAfterEvent(i) == isBackstagePass(i) /\ hasExpired(i)

(* ---------------------------------------------------------------------- *)
(* Orchestrator: the four statements, each guard read from the item as the *)
(* statements before it left it                                            *)
(* ---------------------------------------------------------------------- *)

afterDecrease(i) ==
    IF shouldDecreaseQuality(i) THEN [i EXCEPT !.quality = i.quality - 1] ELSE i

afterIncrease(i) ==
    IF shouldIncreaseQuality(afterDecrease(i))
    THEN [afterDecrease(i) EXCEPT !.quality = afterDecrease(i).quality + 1]
    ELSE afterDecrease(i)

afterRapidIncrease_ByTwo(i) ==
    IF shouldIncreaseQualityMoreRapidly(afterIncrease(i))
    THEN [afterIncrease(i) EXCEPT !.quality = afterIncrease(i).quality + 2]
    ELSE afterIncrease(i)

afterRapidIncrease(i) ==
    IF shouldIncreaseQualityMoreRapidly(afterIncrease(i))
    THEN [afterIncrease(i) EXCEPT !.quality = afterIncrease(i).quality + 1]
    ELSE afterIncrease(i)

updateItemQuality_AgesItem(i) ==
    IF shouldLoseAllQualityAfterEvent(afterRapidIncrease(i))
    THEN [afterRapidIncrease(i) EXCEPT !.quality = 0, !.sellIn = i.sellIn - 1]
    ELSE [afterRapidIncrease(i) EXCEPT !.sellIn = i.sellIn - 1]

updateItemQuality(i) ==
    IF shouldLoseAllQualityAfterEvent(afterRapidIncrease(i))
    THEN [afterRapidIncrease(i) EXCEPT !.quality = 0]
    ELSE afterRapidIncrease(i)

\* the statements (numbered in program order) that one call on i executes
rulesFired(i) ==
    (IF shouldDecreaseQuality(i) THEN {1} ELSE {})
    \cup (IF shouldIncreaseQuality(afterDecrease(i)) THEN {2} ELSE {})
    \cup (IF shouldIncreaseQualityMoreRapidly(afterIncrease(i)) THEN {3} ELSE {})
    \cup (IF shouldLoseAllQualityAfterEvent(afterRapidIncrease(i)) THEN {4} ELSE {})

(* ---------------------------------------------------------------------- *)
(* The single-function version before the refactoring                      *)
(* (a-single-function-predicate-complexity.ts): three guarded statements   *)
(* ---------------------------------------------------------------------- *)

originalAfterDecrease(i) ==
    IF \/ /\ i.name /= "Aged Brie"
          /\ i.name /= "Backstage passes to a TAFKAL80ETC concert"
          /\ i.quality > 0
          /\ i.name /= "Sulfuras, Hand of Ragnaros"
       \/ /\ i.sellIn < 0
          /\ i.name /= "Aged Brie"
          /\ i.name /= "Backstage passes to a TAFKAL80ETC concert"
          /\ i.quality > 0
    THEN [i EXCEPT !.quality = i.quality - 1]
    ELSE i

originalAfterIncrease(i) ==
    IF /\ \/ originalAfterDecrease(i).name = "Aged Brie"
          \/ originalAfterDecrease(i).name = "Backstage passes to a TAFKAL80ETC concert"
       /\ originalAfterDecrease(i).quality < 50
       /\ \/ originalAfterDecrease(i).sellIn > 0
          \/ originalAfterDecrease(i).name = "Backstage passes to a TAFKAL80ETC concert"
    THEN [originalAfterDecrease(i) EXCEPT !.quality = originalAfterDecrease(i).quality + 1]
    ELSE originalAfterDecrease(i)

originalUpdateItemQuality(i) ==
    IF /\ originalAfterIncrease(i).name = "Backstage passes to a TAFKAL80ETC concert"
       /\ originalAfterIncrease(i).sellIn < 0
       /\ originalAfterIncrease(i).quality > 0
    THEN [originalAfterIncrease(i) EXCEPT !.quality = 0]
    ELSE originalAfterIncrease(i)

(* ---------------------------------------------------------------------- *)
(* Tennis predicates (SMELL 2: negation trap)                              *)
(* ---------------------------------------------------------------------- *)

Scores == 0 .. MaxScore

\* interface Game (two Player records)
Game == [player1 : [name : {"player1"}, score : Scores],
         player2 : [name : {"player2"}, score : Scores]]

canPlayerWin_BadVersion(g) ==
    /\ ~(g.player1.score < 3 /\ g.player2.score < 3)
    /\ ~(g.player1.score = g.player2.score)

canPlayerWin(g) ==
    LET bothPlayersHaveAtLeastThreePoints ==
            g.player1.score >= 3 /\ g.player2.score >= 3
        playersAreNotTied == g.player1.score /= g.player2.score
    IN  bothPlayersHaveAtLeastThreePoints /\ playersAreNotTied

\* no tennis predicate is in use
TennisIdle ==
    /\ game = [player1 |-> [name |-> "player1", score |-> 0],
               player2 |-> [name |-> "player2", score |-> 0]]
    /\ verdicts = <<>>

(* ---------------------------------------------------------------------- *)
(* Order processing: data and the extracted responsibilities               *)
(* ---------------------------------------------------------------------- *)

\* a null or undefined user argument; its fields are never read
NullUser ==
    [isNull |-> TRUE, id |-> 0, name |-> "", email |-> "",
     subscriptionLevel |-> "free", lastLoginDate |-> ""]

\* interface User; id 0 and email "" are the falsy values of their types
User ==
    {NullUser} \cup
    [isNull : {FALSE}, id : {0, 7}, name : {"Ann"},
     email : {"", "ann@example.com"},
     subscriptionLevel : {"free", "premium", "enterprise"},
     lastLoginDate : {"2024-01-01"}]

\* a null or undefined entry of the product list
NullProduct ==
    [isNull |-> TRUE, hasId |-> FALSE, name |-> "", price |-> 0, stock |-> 0]

\* interface Product; hasId is id !== undefined
Product ==
    {NullProduct} \cup
    [isNull : {FALSE}, hasId : BOOLEAN, name : {"widget"}, price : {10},
     stock : {-1, 0, 2}]

ProductLists == UNION {[1 .. n -> Product] : n \in 0 .. MaxProducts}

\* the products argument: null/undefined, or an array
Products ==
    {[isNull |-> TRUE, list |-> <<>>]} \cup [isNull : {FALSE}, list : ProductLists]

\* new Date()
NewDate == "now"

calculateDiscount(subscriptionLevel) ==
    CASE subscriptionLevel = "free" -> 0
      [] subscriptionLevel = "premium" -> 10
      [] subscriptionLevel = "enterprise" -> 20

validateUser_IdOnly(u) ==
    IF u.isNull \/ u.id = 0 THEN "Invalid user" ELSE ""

\* the message of the error validateUser throws, "" when it returns
validateUser(u) ==
    IF u.isNull \/ u.id = 0 \/ u.email = "" THEN "Invalid user" ELSE ""

\* the body of the validation loop for products[i]
productError(product, i) ==
    IF product.isNull \/ ~product.hasId
    THEN "Invalid product at index " \o ToString(i)
    ELSE IF product.stock <= 0
    THEN "Product " \o product.name \o " is out of stock"
    ELSE ""

RECURSIVE validateProductsFrom(_, _)
validateProductsFrom(list, i) ==
    IF i >= Len(list) THEN ""
    ELSE IF productError(list[i + 1], i) /= "" THEN productError(list[i + 1], i)
    ELSE validateProductsFrom(list, i + 1)

\* the message of the error validateProducts throws, "" when it returns
validateProducts(ps) ==
    IF ps.isNull \/ Len(ps.list) = 0 THEN "No products selected"
    ELSE validateProductsFrom(ps.list, 0)

\* price * (1 - discountPercentage / 100), in hundredths so that it stays an
\* integer
discountedPrice(product, discount) == product.price * (100 - discount)

\* products.reduce from index i on with accumulator total
RECURSIVE reduceTotal(_, _, _, _)
reduceTotal(list, i, total, discount) ==
    IF i >= Len(list) THEN total
    ELSE reduceTotal(list, i + 1, total + discountedPrice(list[i + 1], discount),
                     discount)

calculateOrderTotal(list, discount) == reduceTotal(list, 0, 0, discount)

createOrder(u, ps, total) ==
    [userId |-> u.id, products |-> ps.list, totalAmount |-> total,
     status |-> "pending"]

\* no order is being processed
OrderIdle ==
    /\ version = "none"
    /\ user = NullUser
    /\ given = NullUser
    /\ products = [isNull |-> TRUE, list |-> <<>>]
    /\ pc = "idle"
    /\ discountPercentage = 0
    /\ totalAmount = 0
    /\ idx = 0
    /\ order = <<>>
    /\ console = <<>>
    /\ thrown = ""
    /\ returned = <<>>

(* ---------------------------------------------------------------------- *)
(* State machine                                                           *)
(* ---------------------------------------------------------------------- *)

Init ==
    /\ item \in Item
    /\ entry = item
    /\ pre = item
    /\ fired = {}
    /\ acted = FALSE
    /\ legacy = item
    /\ TennisIdle
    /\ OrderIdle

\* one call updateItemQuality(item) by the caller that holds the item; legacy
\* is what a call of the single-function version on an equal item leaves
UpdateItemQuality ==
    /\ pre' = item
    /\ fired' = rulesFired(item)
    /\ item' = updateItemQuality(item)
    /\ legacy' = originalUpdateItemQuality(item)
    /\ acted' = TRUE
    /\ UNCHANGED entry
    /\ UNCHANGED tennisVars
    /\ UNCHANGED orderVars

Next == UpdateItemQuality

Spec == Init /\ [][Next]_vars

\* no item is in use
ItemIdle ==
    /\ item = [name |-> "Normal Item", sellIn |-> 0, quality |-> 0]
    /\ entry = item
    /\ pre = item
    /\ fired = {}
    /\ acted = FALSE
    /\ legacy = item

TennisInit ==
    /\ game \in Game
    /\ verdicts = <<>>
    /\ ItemIdle
    /\ OrderIdle

\* one call canPlayerWin_BadVersion(game)
CallCanPlayerWin_BadVersion ==
    /\ "canPlayerWin_BadVersion" \notin DOMAIN verdicts
    /\ verdicts' = verdicts @@ ("canPlayerWin_BadVersion" :> canPlayerWin_BadVersion(game))
    /\ UNCHANGED game
    /\ UNCHANGED itemVars
    /\ UNCHANGED orderVars

\* one call canPlayerWin(game)
CallCanPlayerWin ==
    /\ "canPlayerWin" \notin DOMAIN verdicts
    /\ verdicts' = verdicts @@ ("canPlayerWin" :> canPlayerWin(game))
    /\ UNCHANGED game
    /\ UNCHANGED itemVars
    /\ UNCHANGED orderVars

TennisNext == CallCanPlayerWin_BadVersion \/ CallCanPlayerWin

SpecTennis == TennisInit /\ [][TennisNext]_vars

(* ---------------------------------------------------------------------- *)
(* processUserOrderAndSendNotification, refactored orchestrator: one step  *)
(* per statement                                                           *)
(* ---------------------------------------------------------------------- *)

OrderInit ==
    /\ version \in {"refactored", "original"}
    /\ user \in User
    /\ given = user
    /\ products \in Products
    /\ pc = "validateUser"
    /\ discountPercentage = 0
    /\ totalAmount = 0
    /\ idx = 0
    /\ order = <<>>
    /\ console = <<>>
    /\ thrown = ""
    /\ returned = <<>>
    /\ ItemIdle
    /\ TennisIdle

\* what no step of the call changes
OrderFrame == UNCHANGED <<version, given, products, itemVars, tennisVars>>

ValidateUser ==
    /\ version = "refactored" /\ pc = "validateUser"
    /\ IF validateUser(user) /= ""
       THEN pc' = "threw" /\ thrown' = validateUser(user)
       ELSE pc' = "validateProducts" /\ UNCHANGED thrown
    /\ UNCHANGED <<user, discountPercentage, totalAmount, idx, order, console, returned>>
    /\ OrderFrame

ValidateProducts ==
    /\ version = "refactored" /\ pc = "validateProducts"
    /\ IF validateProducts(products) /= ""
       THEN pc' = "threw" /\ thrown' = validateProducts(products)
       ELSE pc' = "calculateDiscount" /\ UNCHANGED thrown
    /\ UNCHANGED <<user, discountPercentage, totalAmount, idx, order, console, returned>>
    /\ OrderFrame

CalculateDiscount ==
    /\ version = "refactored" /\ pc = "calculateDiscount"
    /\ discountPercentage' = calculateDiscount(user.subscriptionLevel)
    /\ pc' = "calculateOrderTotal"
    /\ UNCHANGED <<user, totalAmount, idx, order, console, thrown, returned>>
    /\ OrderFrame

CalculateOrderTotal ==
    /\ version = "refactored" /\ pc = "calculateOrderTotal"
    /\ totalAmount' = calculateOrderTotal(products.list, discountPercentage)
    /\ pc' = "createOrder"
    /\ UNCHANGED <<user, discountPercentage, idx, order, console, thrown, returned>>
    /\ OrderFrame

CreateOrder ==
    /\ version = "refactored" /\ pc = "createOrder"
    /\ order' = <<createOrder(user, products, totalAmount)>>
    /\ pc' = "sendEmailNotification"
    /\ UNCHANGED <<user, discountPercentage, totalAmount, idx, console, thrown, returned>>
    /\ OrderFrame

SendEmailNotification ==
    /\ version = "refactored" /\ pc = "sendEmailNotification"
    /\ console' = console \o <<"[EMAIL] To", "[EMAIL] Subject", "[EMAIL] Body">>
    /\ pc' = "sendSmsNotification"
    /\ UNCHANGED <<user, discountPercentage, totalAmount, idx, order, thrown, returned>>
    /\ OrderFrame

SendSmsNotification ==
    /\ version = "refactored" /\ pc = "sendSmsNotification"
    /\ IF user.subscriptionLevel = "premium" \/ user.subscriptionLevel = "enterprise"
       THEN console' = Append(console, "[SMS] Message")
       ELSE UNCHANGED console
    /\ pc' = "logOrderAnalytics"
    /\ UNCHANGED <<user, discountPercentage, totalAmount, idx, order, thrown, returned>>
    /\ OrderFrame

LogOrderAnalytics ==
    /\ version = "refactored" /\ pc = "logOrderAnalytics"
    /\ console' = Append(console, "[ANALYTICS]")
    /\ pc' = "updateUserLastLogin"
    /\ UNCHANGED <<user, discountPercentage, totalAmount, idx, order, thrown, returned>>
    /\ OrderFrame

UpdateUserLastLogin ==
    /\ version = "refactored" /\ pc = "updateUserLastLogin"
    /\ user' = [user EXCEPT !.lastLoginDate = NewDate]
    /\ pc' = "return"
    /\ UNCHANGED <<discountPercentage, totalAmount, idx, order, console, thrown, returned>>
    /\ OrderFrame

ReturnOrder ==
    /\ version = "refactored" /\ pc = "return"
    /\ returned' = order
    /\ pc' = "returned"
    /\ UNCHANGED <<user, discountPercentage, totalAmount, idx, order, console, thrown>>
    /\ OrderFrame

(* ---------------------------------------------------------------------- *)
(* processUserOrderAndSendNotification, the multi-responsibility original  *)
(* ---------------------------------------------------------------------- *)

\* Step 1: validate user data
OriginalValidateUser ==
    /\ version = "original" /\ pc = "validateUser"
    /\ IF user.isNull \/ user.id = 0 \/ user.email = ""
       THEN pc' = "threw" /\ thrown' = "Invalid user"
       ELSE pc' = "discount" /\ UNCHANGED thrown
    /\ UNCHANGED <<user, discountPercentage, totalAmount, idx, order, console, returned>>
    /\ OrderFrame

OriginalDiscount ==
    /\ version = "original" /\ pc = "discount"
    /\ discountPercentage' =
           IF user.subscriptionLevel = "premium" THEN 10
           ELSE IF user.subscriptionLevel = "enterprise" THEN 20
           ELSE 0
    /\ pc' = "checkProducts"
    /\ UNCHANGED <<user, totalAmount, idx, order, console, thrown, returned>>
    /\ OrderFrame

\* Step 2: products exist; totalAmount = 0 and i = 0 before the loop
OriginalCheckProducts ==
    /\ version = "original" /\ pc = "checkProducts"
    /\ IF products.isNull \/ Len(products.list) = 0
       THEN pc' = "threw" /\ thrown' = "No products selected"
       ELSE pc' = "loop" /\ UNCHANGED thrown
    /\ totalAmount' = 0
    /\ idx' = 0
    /\ UNCHANGED <<user, discountPercentage, order, console, returned>>
    /\ OrderFrame

\* one iteration of the loop, or its exit when i reaches products.length
OriginalLoop ==
    /\ version = "original" /\ pc = "loop"
    /\ IF idx >= Len(products.list)
       THEN pc' = "createOrder" /\ UNCHANGED <<thrown, totalAmount, idx>>
       ELSE IF products.list[idx + 1].isNull \/ ~products.list[idx + 1].hasId
       THEN /\ pc' = "threw"
            /\ thrown' = "Invalid product at index " \o ToString(idx)
            /\ UNCHANGED <<totalAmount, idx>>
       ELSE IF products.list[idx + 1].stock <= 0
       THEN /\ pc' = "threw"
            /\ thrown' = "Product " \o products.list[idx + 1].name \o " is out of stock"
            /\ UNCHANGED <<totalAmount, idx>>
       ELSE /\ totalAmount' = totalAmount
                   + products.list[idx + 1].price * (100 - discountPercentage)
            /\ idx' = idx + 1
            /\ pc' = "loop"
            /\ UNCHANGED thrown
    /\ UNCHANGED <<user, discountPercentage, order, console, returned>>
    /\ OrderFrame

\* Step 3: create order object
OriginalCreateOrder ==
    /\ version = "original" /\ pc = "createOrder"
    /\ order' = <<[userId |-> user.id, products |-> products.list,
                   totalAmount |-> totalAmount, status |-> "pending"]>>
    /\ pc' = "email"
    /\ UNCHANGED <<user, discountPercentage, totalAmount, idx, console, thrown, returned>>
    /\ OrderFrame

\* Step 4: send notifications
OriginalEmail ==
    /\ version = "original" /\ pc = "email"
    /\ console' = console \o <<"[EMAIL] To", "[EMAIL] Subject", "[EMAIL] Body">>
    /\ pc' = "sms"
    /\ UNCHANGED <<user, discountPercentage, totalAmount, idx, order, thrown, returned>>
    /\ OrderFrame

OriginalSms ==
    /\ version = "original" /\ pc = "sms"
    /\ IF user.subscriptionLevel = "premium" \/ user.subscriptionLevel = "enterprise"
       THEN console' = Append(console, "[SMS] Message")
       ELSE UNCHANGED console
    /\ pc' = "analytics"
    /\ UNCHANGED <<user, discountPercentage, totalAmount, idx, order, thrown, returned>>
    /\ OrderFrame

OriginalAnalytics ==
    /\ version = "original" /\ pc = "analytics"
    /\ console' = Append(console, "[ANALYTICS]")
    /\ pc' = "lastLogin"
    /\ UNCHANGED <<user, discountPercentage, totalAmount, idx, order, thrown, returned>>
    /\ OrderFrame

OriginalLastLogin ==
    /\ version = "original" /\ pc = "lastLogin"
    /\ user' = [user EXCEPT !.lastLoginDate = NewDate]
    /\ pc' = "return"
    /\ UNCHANGED <<discountPercentage, totalAmount, idx, order, console, thrown, returned>>
    /\ OrderFrame

\* Step 5: return the order
OriginalReturn ==
    /\ version = "original" /\ pc = "return"
    /\ returned' = order
    /\ pc' = "returned"
    /\ UNCHANGED <<user, discountPercentage, totalAmount, idx, order, console, thrown>>
    /\ OrderFrame

OrderNext ==
    \/ ValidateUser
    \/ ValidateProducts
    \/ CalculateDiscount
    \/ CalculateOrderTotal
    \/ CreateOrder
    \/ SendEmailNotification
    \/ SendSmsNotification
    \/ LogOrderAnalytics
    \/ UpdateUserLastLogin
    \/ ReturnOrder
    \/ OriginalValidateUser
    \/ OriginalDiscount
    \/ OriginalCheckProducts
    \/ OriginalLoop
    \/ OriginalCreateOrder
    \/ OriginalEmail
    \/ OriginalSms
    \/ OriginalAnalytics
    \/ OriginalLastLogin
    \/ OriginalReturn

SpecOrder == OrderInit /\ [][OrderNext]_vars

\* the caller calls updateItemQuality once per time step and never stops
\* calling while a call would still change the item
SpecLive == Spec /\ WF_vars(UpdateItemQuality)

(* ---------------------------------------------------------------------- *)
(* Helpers of the properties                                               *)
(* ---------------------------------------------------------------------- *)

InRange(q) == MIN_QUALITY <= q /\ q <= MAX_QUALITY

\* distance of q to the interval [MIN_QUALITY, MAX_QUALITY]
DistToRange(q) ==
    IF q < MIN_QUALITY THEN MIN_QUALITY - q
    ELSE IF q > MAX_QUALITY THEN q - MAX_QUALITY
    ELSE 0

isGeneric(i) == i.name \notin {AGED_BRIE, BACKSTAGE_PASS, SULFURAS}

(* ---------------------------------------------------------------------- *)
(* Properties                                                              *)
(* ---------------------------------------------------------------------- *)

\* C1: an item handed over with quality in [0,50] has quality in [0,50]
\* after any finite sequence of updateItemQuality calls, whatever its name
\* and sellIn.
C1_QualityStaysInRange ==
    InRange(entry.quality) => InRange(item.quality)

\* C1 witness: a call on an in-range item ran a rule at the edge of the range
\* (a pass at 49 raised to the ceiling) and the item is still in range.
C1_Witness ==
    /\ acted
    /\ InRange(entry.quality)
    /\ isBackstagePass(pre)
    /\ pre.quality = 49
    /\ item.quality = MAX_QUALITY

\* C2: one call on a Backstage pass with sellIn >= 0 (0 included) raises a
\* quality <= 48 by exactly 2, takes 49 to 50 (not 51) and leaves 50 at 50.
C2_PassUnexpiredIncrease ==
    (acted /\ isBackstagePass(pre) /\ pre.sellIn >= 0) =>
        /\ pre.quality <= 48 => item.quality = pre.quality + 2
        /\ pre.quality = 49 => item.quality = 50
        /\ pre.quality = 50 => item.quality = 50

\* C2 witness: a pass with sellIn exactly 0 and quality 48 was raised to 50.
C2_Witness ==
    /\ acted
    /\ isBackstagePass(pre)
    /\ pre.sellIn = 0
    /\ pre.quality = 48
    /\ item.quality = 50

\* C3: one call on a Backstage pass with sellIn < 0 leaves quality exactly 0,
\* whatever the quality was on entry to the call.
C3_PassExpiredCollapses ==
    (acted /\ isBackstagePass(pre) /\ pre.sellIn < 0) => item.quality = 0

\* C3 witness: an expired pass of quality 30 was reset to 0.
C3_Witness ==
    /\ acted
    /\ isBackstagePass(pre)
    /\ pre.sellIn = -1
    /\ pre.quality = 30
    /\ item.quality = 0

\* C4: one call on a Sulfuras item leaves quality unchanged for every sellIn
\* and every quality (values above 50 included), and none of the four rules
\* fires in that call.
C4_LegendaryUnchanged ==
    (acted /\ isSulfuras(pre)) =>
        /\ item.quality = pre.quality
        /\ fired = {}

\* C4 witness: a call ran on an expired Sulfuras of quality 80 and left it 80.
C4_Witness ==
    /\ acted
    /\ isSulfuras(pre)
    /\ pre.sellIn < 0
    /\ pre.quality = 80
    /\ item.quality = 80

\* C5: one call on a generic item (name none of the three special names)
\* lowers a quality > 0 by exactly 1 and leaves a quality of 0 at 0, for
\* every sellIn, positive or negative.
C5_GenericDecrease ==
    (acted /\ isGeneric(pre)) =>
        /\ pre.quality > 0 => item.quality = pre.quality - 1
        /\ pre.quality = 0 => item.quality = 0

\* C5 witness: an expired generic item of quality 1 was lowered to 0.
C5_Witness ==
    /\ acted
    /\ isGeneric(pre)
    /\ pre.sellIn < 0
    /\ pre.quality = 1
    /\ item.quality = 0

\* C6: one call on an Aged Brie raises a quality < 50 by exactly 1 and leaves
\* a quality of 50 at 50, for every sellIn (sellIn <= 0 included).
C6_BrieIncrease ==
    (acted /\ isAgedBrie(pre)) =>
        /\ pre.quality < 50 => item.quality = pre.quality + 1
        /\ pre.quality = 50 => item.quality = 50

\* C6 witness: an Aged Brie with sellIn 0 and quality 49 was raised to 50.
C6_Witness ==
    /\ acted
    /\ isAgedBrie(pre)
    /\ pre.sellIn = 0
    /\ pre.quality = 49
    /\ item.quality = 50

\* C7 as stated: one call on an item with quality in [0,50] changes quality
\* by at most 1 in absolute value or sets it to exactly 0.
C7_Original ==
    (acted /\ InRange(pre.quality)) =>
        \/ item.quality - pre.quality \in {-1, 0, 1}
        \/ item.quality = 0

\* C7 amended: one call on an item with quality in [0,50] changes quality by
\* at most 1 in absolute value, or raises it by exactly 2 (only an unexpired
\* Backstage pass with quality <= 48), or sets it to exactly 0.
C7_StepSize ==
    (acted /\ InRange(pre.quality)) =>
        \/ item.quality - pre.quality \in {-1, 0, 1}
        \/ /\ item.quality - pre.quality = 2
           /\ isBackstagePass(pre)
           /\ pre.sellIn >= 0
           /\ pre.quality <= 48
        \/ item.quality = 0

\* C7 witness: a call raised an unexpired pass by 2.
C7_Witness ==
    /\ acted
    /\ InRange(pre.quality)
    /\ isBackstagePass(pre)
    /\ item.quality = pre.quality + 2

\* C8 as stated: in no call on a Backstage pass does rule 2 or rule 3 fire
\* together with rule 4 (read here for passes with quality in [0,50] only).
C8_Original ==
    (acted /\ isBackstagePass(pre) /\ InRange(pre.quality)) =>
        ~((2 \in fired \/ 3 \in fired) /\ 4 \in fired)

\* C8 amended: in no call on a Backstage pass does rule 3 fire together with
\* rule 4, because rule 3 fires only when sellIn >= 0 and rule 4 only when
\* sellIn < 0; rule 2 has no sellIn guard and may fire in the same call as
\* rule 4, which then still leaves quality 0.
C8_RapidIncreaseExcludesCollapse ==
    (acted /\ isBackstagePass(pre)) =>
        /\ ~(3 \in fired /\ 4 \in fired)
        /\ 3 \in fired => pre.sellIn >= 0
        /\ 4 \in fired <=> pre.sellIn < 0
        /\ 4 \in fired => item.quality = 0

\* C8 witness: rule 2 and rule 4 fired in one call on an expired pass.
C8_Witness ==
    /\ acted
    /\ isBackstagePass(pre)
    /\ pre.sellIn < 0
    /\ fired = {2, 4}
    /\ item.quality = 0

\* C9: a call changes only the quality field: name and sellIn are the same
\* after the call as before it and as when the item was handed over, and the
\* item is still one record of the same three fields.
C9_OnlyQualityChanges ==
    /\ item.name = pre.name
    /\ item.sellIn = pre.sellIn
    /\ item.name = entry.name
    /\ item.sellIn = entry.sellIn
    /\ DOMAIN item = {"name", "sellIn", "quality"}

\* C9 witness: a call changed quality (so the item was written).
C9_Witness ==
    /\ acted
    /\ item.quality /= pre.quality
    /\ pre.sellIn < 0

\* C10: a call on an item whose quality is outside [0,50] yields an item
\* with an integer quality that is no further from [0,50]: a negative
\* quality is never lowered and a quality above 50 is never raised.
C10_MalformedNeverWorse ==
    (acted /\ ~InRange(pre.quality)) =>
        /\ item.quality \in Int
        /\ DistToRange(item.quality) <= DistToRange(pre.quality)
        /\ pre.quality < MIN_QUALITY => item.quality >= pre.quality
        /\ pre.quality > MAX_QUALITY => item.quality <= pre.quality

\* C10 witness: a call ran on a generic item of negative quality and left the
\* quality as it was.
C10_Witness ==
    /\ acted
    /\ isGeneric(pre)
    /\ pre.quality < MIN_QUALITY
    /\ item.quality = pre.quality

\* C11: the refactoring preserves behaviour: for every item with quality in
\* [0,50] (every category, every sellIn), one call of the refactored
\* updateItemQuality and one call of the single-function updateItemQuality
\* leave the item with the same quality.
C11_RefactoringPreservesQuality ==
    (acted /\ InRange(pre.quality)) => item.quality = legacy.quality

\* the quality that repeated calls settle at, by category of the item handed
\* over (sellIn never changes)
SettledQuality(i) ==
    IF isSulfuras(i) THEN i.quality
    ELSE IF isAgedBrie(i) THEN MAX_QUALITY
    ELSE IF isBackstagePass(i) THEN (IF i.sellIn < 0 THEN MIN_QUALITY ELSE MAX_QUALITY)
    ELSE MIN_QUALITY

\* C13: repeated calls on an item handed over with quality in [0,50]
\* eventually reach, and then keep, the settled quality (0 for a generic
\* item and an expired pass, 50 for Aged Brie and an unexpired pass, the
\* entry value for Sulfuras); no call changes a settled quality, and every
\* call moves quality toward the settled value, never away from it or past
\* it.
C13_QualitySettles ==
    /\ <>[](InRange(entry.quality) => item.quality = SettledQuality(entry))
    /\ [][InRange(entry.quality) =>
            /\ item.quality = SettledQuality(entry)
                   => item'.quality = SettledQuality(entry)
            /\ item.quality <= SettledQuality(entry)
                   => (item.quality <= item'.quality
                       /\ item'.quality <= SettledQuality(entry))
            /\ item.quality >= SettledQuality(entry)
                   => (item.quality >= item'.quality
                       /\ item'.quality >= SettledQuality(entry))]_vars

\* C13 witness: a generic item handed over at quality 50 has been called
\* down to its settled quality 0, and the last call changed nothing.
C13_Witness ==
    /\ acted
    /\ isGeneric(entry)
    /\ entry.quality = MAX_QUALITY
    /\ item.quality = MIN_QUALITY
    /\ pre.quality = MIN_QUALITY

\* C12: canPlayerWin returns the same boolean as canPlayerWin_BadVersion for
\* every pair of player scores.
C12_SameVerdict ==
    {"canPlayerWin_BadVersion", "canPlayerWin"} \subseteq DOMAIN verdicts
        => verdicts["canPlayerWin"] = verdicts["canPlayerWin_BadVersion"]

\* the user argument is invalid: missing, or without id or email
BadUser(u) == u.isNull \/ u.id = 0 \/ u.email = ""

\* the product list is missing, empty, or holds an invalid or out-of-stock
\* product
BadProducts(ps) ==
    \/ ps.isNull
    \/ ps.list = <<>>
    \/ \E k \in 1 .. Len(ps.list) :
           \/ ps.list[k].isNull
           \/ ~ps.list[k].hasId
           \/ ps.list[k].stock <= 0

\* C14: in both versions of processUserOrderAndSendNotification, a call with
\* an invalid user or a missing, empty, invalid-product or out-of-stock
\* product list never emits an email, SMS or analytics line, never changes
\* user.lastLoginDate and never returns an order; it can end only by
\* throwing; and with an invalid user the error thrown is 'Invalid user',
\* also when the products are invalid too.
C14_FailedCallHasNoEffect ==
    (version /= "none" /\ (BadUser(given) \/ BadProducts(products))) =>
        /\ console = <<>>
        /\ user = given
        /\ order = <<>>
        /\ returned = <<>>
        /\ pc /= "returned"
        /\ (pc = "threw") <=> (thrown /= "")
        /\ ~ENABLED OrderNext => pc = "threw"
        /\ (pc = "threw" /\ BadUser(given)) => thrown = "Invalid user"
        /\ (pc = "threw" /\ ~BadUser(given)) => thrown /= "Invalid user"

\* C14 witness: the original version threw on a valid user whose second
\* product is out of stock, after it had accumulated the first product.
C14_Witness ==
    /\ version = "original"
    /\ ~BadUser(given)
    /\ pc = "threw"
    /\ idx = 1
    /\ totalAmount > 0
    /\ thrown = "Product widget is out of stock"
    /\ console = <<>>
    /\ user.lastLoginDate = given.lastLoginDate

====
